---- MODULE Spec2Model ----
(***************************************************************************)
(* The credential vault of MAK3R-HUB (class CredentialManager): the        *)
(* machine-bound master key, field sealing, the encrypted credentials      *)
(* document and the public operations set/get/remove/list/rotate/export/   *)
(* import/cleanup.                                                         *)
(*                                                                         *)
(* Representation.                                                         *)
(*  - A Buffer is a sequence of bytes 0..255; a JavaScript string is a     *)
(*    sequence of character codes.  The boolean true is JSTrue, a value    *)
(*    that is no string.                                                   *)
(*  - A credential record (a JavaScript object) is a function from field   *)
(*    names to values; cache.get of a missing key is Undefined.            *)
(*  - Field values are encrypted byte by byte (encrypt/decrypt below).     *)
(*    A whole encrypted document is kept as the pair of the JSON value     *)
(*    that was serialised and the key whose keystream was XORed over its   *)
(*    text: XORing with the same key again gives the text back, XORing     *)
(*    with another key gives a garbled text that JSON.parse rejects.       *)
(*  - One vault process runs at a time; constructing a new instance (in    *)
(*    any directory, on any machine) discards the memory of the one        *)
(*    before, and the files stay.  A second process attached to the same   *)
(*    directory is kept suspended and takes turns with the running one.    *)
(*  - fs.writeFile opens its file with truncation and then writes: it can  *)
(*    fail before the file is touched, fail after the truncation, or be    *)
(*    cut short by the death of the process.                               *)
(*  - Date.now() counts days instead of milliseconds (TLC integers are     *)
(*    32 bits wide and 30 days of milliseconds do not fit).                *)
(***************************************************************************)
EXTENDS Integers, Sequences, FiniteSets, TLC

VARIABLES
    credentialsDir,   \* this.credentialsDir of the vault instance in use
    host,             \* the machine the vault process runs on
    masterKey,        \* this.masterKey
    cache,            \* this.cache
    keyFile,          \* keyring.enc of each directory
    credentialsFile,  \* credentials.enc of each directory
    exportFile,       \* the file at the export/import path
    now,              \* Date.now()
    generated,        \* per directory: the key generated for it and where
    deployment,       \* where vault processes can be started: <<dir, machine>>
    calls,            \* number of calls and file-system events so far
    last,             \* the last call: operation, arguments, outcome
    disk,             \* what the file system does to the next fs.writeFile
    suspended,        \* the memory of the other vault process
    pc                \* where the running process is inside initialize()

vars == <<credentialsDir, host, masterKey, cache, keyFile, credentialsFile,
          exportFile, now, generated, deployment, calls, last, disk, suspended,
          pc>>

-----------------------------------------------------------------------------
(* Bounds of the model *)

Dirs == {"home", "tmp"}
Machines == {"hostA", "hostB"}

\* Date.now() starts at 0 and never passes MaxNow
MaxNow == 31

\* number of backup entries a cache may hold before rotate is no longer called
MaxBackups == 1

\* number of calls of vault operations and file-system events in a run
MaxCalls == 5

-----------------------------------------------------------------------------
(* Bytes, strings and values *)

RECURSIVE XOR(_, _)
XOR(a, b) ==
    IF a = 0 THEN b
    ELSE IF b = 0 THEN a
    ELSE (((a % 2) + (b % 2)) % 2) + (2 * XOR(a \div 2, b \div 2))

Min(a, b) == IF a < b THEN a ELSE b

\* Buffer.slice(from, to) with 0-based bounds, clipped to the buffer
Slice(buf, from, to) ==
    IF from >= Min(to, Len(buf)) THEN <<>>
    ELSE SubSeq(buf, from + 1, Min(to, Len(buf)))

JSTrue == <<-1>>
Undefined == [undefined |-> JSTrue]
NullKey == <<-1>>

IsString(val) == \A i \in 1..Len(val) : val[i] >= 0
Truthy(val) == val = JSTrue \/ (IsString(val) /\ Len(val) > 0)

\* a JavaScript string is the sequence of its code points; a surrogate code
\* unit that is part of no pair stands for itself
IsSurrogate(c) == c >= 55296 /\ c <= 57343

\* the UTF-8 bytes of one code point; an unpaired surrogate is written as U+FFFD
Utf8Bytes(c) ==
    IF c < 128 THEN <<c>>
    ELSE IF c < 2048 THEN <<192 + (c \div 64), 128 + (c % 64)>>
    ELSE IF IsSurrogate(c) THEN <<239, 191, 189>>
    ELSE IF c < 65536
    THEN <<224 + (c \div 4096), 128 + ((c \div 64) % 64), 128 + (c % 64)>>
    ELSE <<240 + (c \div 262144), 128 + ((c \div 4096) % 64),
           128 + ((c \div 64) % 64), 128 + (c % 64)>>

\* Buffer.from(str, 'utf8')
RECURSIVE Utf8Encode(_)
Utf8Encode(str) ==
    IF Len(str) = 0 THEN <<>>
    ELSE Utf8Bytes(str[1]) \o Utf8Encode(Tail(str))

\* byte i of buf is a continuation byte within lo..hi
Utf8Cont(buf, i, lo, hi) == i <= Len(buf) /\ buf[i] >= lo /\ buf[i] <= hi

\* the number of bytes a sequence that starts with lead byte b takes, 0 when b
\* starts none
Utf8Need(b) ==
    IF b >= 194 /\ b <= 223 THEN 2
    ELSE IF b >= 224 /\ b <= 239 THEN 3
    ELSE IF b >= 240 /\ b <= 244 THEN 4
    ELSE 0

\* the bounds of the byte after lead byte b
Utf8SecondLo(b) == IF b = 224 THEN 160 ELSE IF b = 240 THEN 144 ELSE 128
Utf8SecondHi(b) == IF b = 237 THEN 159 ELSE IF b = 244 THEN 143 ELSE 191

\* the number of bytes of the well-formed beginning of a sequence at the head
\* of buf
Utf8Prefix(buf) ==
    LET need == Utf8Need(buf[1])
    IN  IF need = 0 THEN 1
        ELSE IF ~Utf8Cont(buf, 2, Utf8SecondLo(buf[1]), Utf8SecondHi(buf[1])) THEN 1
        ELSE IF need = 2 THEN 2
        ELSE IF ~Utf8Cont(buf, 3, 128, 191) THEN 2
        ELSE IF need = 3 THEN 3
        ELSE IF ~Utf8Cont(buf, 4, 128, 191) THEN 3
        ELSE 4

\* Buffer.toString('utf8'): every sequence that is no UTF-8 decodes to U+FFFD
RECURSIVE Utf8Decode(_)
Utf8Decode(buf) ==
    IF Len(buf) = 0 THEN <<>>
    ELSE IF buf[1] < 128 THEN <<buf[1]>> \o Utf8Decode(Tail(buf))
    ELSE LET n == Utf8Prefix(buf)
             rest == Utf8Decode(SubSeq(buf, n + 1, Len(buf)))
         IN  IF n < Utf8Need(buf[1]) \/ Utf8Need(buf[1]) = 0
             THEN <<65533>> \o rest
             ELSE IF n = 2
             THEN <<((buf[1] - 192) * 64) + (buf[2] - 128)>> \o rest
             ELSE IF n = 3
             THEN <<((buf[1] - 224) * 4096) + ((buf[2] - 128) * 64)
                        + (buf[3] - 128)>> \o rest
             ELSE <<((buf[1] - 240) * 262144) + ((buf[2] - 128) * 4096)
                        + ((buf[3] - 128) * 64) + (buf[4] - 128)>> \o rest

B64Char(n) ==
    IF n < 26 THEN 65 + n
    ELSE IF n < 52 THEN 97 + (n - 26)
    ELSE IF n < 62 THEN 48 + (n - 52)
    ELSE IF n = 62 THEN 43 ELSE 47

B64Pad == 61

B64Value(c) ==
    IF c >= 65 /\ c <= 90 THEN c - 65
    ELSE IF c >= 97 /\ c <= 122 THEN c - 97 + 26
    ELSE IF c >= 48 /\ c <= 57 THEN c - 48 + 52
    ELSE IF c = 43 THEN 62
    ELSE IF c = 47 THEN 63
    ELSE -1

\* Buffer.toString('base64')
RECURSIVE Base64Encode(_)
Base64Encode(buf) ==
    IF Len(buf) = 0 THEN <<>>
    ELSE IF Len(buf) = 1 THEN
        <<B64Char(buf[1] \div 4), B64Char((buf[1] % 4) * 16), B64Pad, B64Pad>>
    ELSE IF Len(buf) = 2 THEN
        <<B64Char(buf[1] \div 4),
          B64Char(((buf[1] % 4) * 16) + (buf[2] \div 16)),
          B64Char((buf[2] % 16) * 4), B64Pad>>
    ELSE
        <<B64Char(buf[1] \div 4),
          B64Char(((buf[1] % 4) * 16) + (buf[2] \div 16)),
          B64Char(((buf[2] % 16) * 4) + (buf[3] \div 64)),
          B64Char(buf[3] % 64)>>
        \o Base64Encode(SubSeq(buf, 4, Len(buf)))

\* the 6-bit values of the base64 characters of a string, up to the padding;
\* characters outside the alphabet are skipped
RECURSIVE B64Sextets(_)
B64Sextets(str) ==
    IF Len(str) = 0 \/ str[1] = B64Pad THEN <<>>
    ELSE IF B64Value(str[1]) < 0 THEN B64Sextets(Tail(str))
    ELSE <<B64Value(str[1])>> \o B64Sextets(Tail(str))

RECURSIVE B64Bytes(_)
B64Bytes(sx) ==
    IF Len(sx) < 2 THEN <<>>
    ELSE IF Len(sx) = 2 THEN <<(sx[1] * 4) + (sx[2] \div 16)>>
    ELSE IF Len(sx) = 3 THEN
        <<(sx[1] * 4) + (sx[2] \div 16), ((sx[2] % 16) * 16) + (sx[3] \div 4)>>
    ELSE
        <<(sx[1] * 4) + (sx[2] \div 16),
          ((sx[2] % 16) * 16) + (sx[3] \div 4),
          ((sx[3] % 4) * 64) + sx[4]>>
        \o B64Bytes(SubSeq(sx, 5, Len(sx)))

\* Buffer.from(str, 'base64')
Base64Decode(str) == B64Bytes(B64Sextets(str))

-----------------------------------------------------------------------------
(* Sizes set by the constructor *)

keyLength == 32
saltLength == 32

\* crypto.randomBytes(n): the outcomes the model draws from
KeySeeds == {<<7, 3>>, <<11, 200>>}
SaltSeeds == {<<3, 77>>}
randomBytes(n, seeds) == {[i \in 1..n |-> ((sd[1] * i) + sd[2]) % 256] : sd \in seeds}

-----------------------------------------------------------------------------
(* MachineIdentity *)

\* the SHA-256 digest of `${hostname}-${username}-${platform}-${arch}`:
\* 32 bytes, a different digest for a different machine
getMachineId(m) ==
    IF m = "hostA" THEN [i \in 1..32 |-> ((5 * i) + 17) % 256]
    ELSE [i \in 1..32 |-> ((13 * i) + 90) % 256]

-----------------------------------------------------------------------------
(* KeyStore *)

NoFile == [exists |-> FALSE]
BytesFile(b) == [exists |-> TRUE, bytes |-> b]

\* the combined key taken from the machine id alone
combinedKeyOf_FingerprintOnly(machineId, salt) == Slice(machineId, 0, 32)

combinedKeyOf(machineId, salt) == Slice(machineId, 0, 16) \o Slice(salt, 0, 16)

encryptMasterKey(key, machineId, salt) ==
    LET combinedKey == combinedKeyOf(machineId, salt)
    IN  salt \o [i \in 1..Len(key) |->
                    XOR(key[i], combinedKey[((i - 1) % Len(combinedKey)) + 1])]

\* decryptMasterKey with the machine id left out of the combined key
decryptMasterKey_SaltOnly(encryptedData, machineId) ==
    LET salt == Slice(encryptedData, 0, saltLength)
        encrypted == Slice(encryptedData, saltLength, Len(encryptedData))
        combinedKey == combinedKeyOf(salt, salt)
    IN  [i \in 1..Len(encrypted) |->
            XOR(encrypted[i], combinedKey[((i - 1) % Len(combinedKey)) + 1])]

decryptMasterKey(encryptedData, machineId) ==
    LET salt == Slice(encryptedData, 0, saltLength)
        encrypted == Slice(encryptedData, saltLength, Len(encryptedData))
        combinedKey == combinedKeyOf(machineId, salt)
    IN  [i \in 1..Len(encrypted) |->
            XOR(encrypted[i], combinedKey[((i - 1) % Len(combinedKey)) + 1])]

-----------------------------------------------------------------------------
(* SchemaRegistry *)

KnownServices ==
    {"stripe", "openai", "github", "aws", "vercel", "netlify", "digitalocean"}

validationRules ==
    [stripe |-> [required |-> <<"api_key">>,
                 optional |-> <<"webhook_secret", "environment">>],
     openai |-> [required |-> <<"api_key">>,
                 optional |-> <<"organization", "model_preference">>],
     github |-> [required |-> <<"token">>,
                 optional |-> <<"username", "email">>],
     aws |-> [required |-> <<"access_key_id", "secret_access_key">>,
              optional |-> <<"region", "role_arn", "session_token">>],
     vercel |-> [required |-> <<"token">>,
                 optional |-> <<"team_id", "project_id">>],
     netlify |-> [required |-> <<"token">>,
                  optional |-> <<"site_id">>],
     digitalocean |-> [required |-> <<"token">>,
                       optional |-> <<"spaces_key", "spaces_secret">>]]

sensitiveFields ==
    [stripe |-> <<"api_key", "webhook_secret">>,
     openai |-> <<"api_key">>,
     github |-> <<"token">>,
     aws |-> <<"secret_access_key", "session_token">>,
     vercel |-> <<"token">>,
     netlify |-> <<"token">>,
     digitalocean |-> <<"token", "spaces_secret">>]

Range(seq) == {seq[i] : i \in 1..Len(seq)}

Present(credentials, field) ==
    field \in DOMAIN credentials /\ Truthy(credentials[field])

NoError == ""

\* validateCredentials: the message of the error it throws, NoError when it
\* returns
validateCredentials(service, credentials) ==
    IF service \notin KnownServices THEN NoError
    ELSE LET required == validationRules[service].required
             missing == {i \in 1..Len(required) : ~Present(credentials, required[i])}
         IN  IF missing = {} THEN NoError
             ELSE LET first == CHOOSE i \in missing : \A j \in missing : i <= j
                  IN  "Missing required field '" \o required[first]
                          \o "' for " \o service

-----------------------------------------------------------------------------
(* FieldCipher *)

\* masterKey[i % masterKey.length]; indexing an empty Buffer gives undefined,
\* and x ^ undefined is x
KeyByte(key, i) == IF Len(key) = 0 THEN 0 ELSE key[(i % Len(key)) + 1]

\* encrypt(data) of a string under an initialized key: the Buffer
encrypt(data, key) ==
    LET dataBuffer == Utf8Encode(data)
    IN  [i \in 1..Len(dataBuffer) |-> XOR(dataBuffer[i], KeyByte(key, i - 1))]

\* decrypt that starts the keystream one byte late
decrypt_KeystreamShifted(encryptedData, key) ==
    Utf8Decode([i \in 1..Len(encryptedData) |->
                    XOR(encryptedData[i], KeyByte(key, i))])

\* decrypt(encryptedData) of a Buffer under an initialized key: the string
decrypt(encryptedData, key) ==
    Utf8Decode([i \in 1..Len(encryptedData) |->
                    XOR(encryptedData[i], KeyByte(key, i - 1))])

\* `${field}_encrypted`
MarkerOf(field) == field \o "_encrypted"

\* the field names that occur in records
FieldNames ==
    UNION {Range(validationRules[s].required) \cup Range(validationRules[s].optional)
              : s \in KnownServices}
    \cup {"setting", "invalid_field"}

\* field.endsWith('_encrypted')
MarkerNames == {MarkerOf(f) : f \in FieldNames}
endsWithEncrypted(field) == field \in MarkerNames

\* field.replace('_encrypted', '')
actualFieldOf(field) == CHOOSE f \in FieldNames : field = MarkerOf(f)

sensitiveOf(service) ==
    IF service \in KnownServices THEN Range(sensitiveFields[service]) ELSE {}

\* the fields encryptSensitiveFields seals, and so calls encrypt for
SealedFields(service, credentials) ==
    {f \in sensitiveOf(service) : Present(credentials, f)}

\* encryptSensitiveFields that sets the marker and leaves the value as it was
encryptSensitiveFields_MarkOnly(service, credentials, key) ==
    LET sealed == SealedFields(service, credentials)
        markers == {MarkerOf(f) : f \in sealed}
    IN  [g \in DOMAIN credentials \cup markers |->
            IF g \in markers THEN JSTrue ELSE credentials[g]]

\* encryptSensitiveFields that encrypts every field, and marks the sensitive
\* ones
encryptSensitiveFields_EveryField(service, credentials, key) ==
    LET sealed == {f \in DOMAIN credentials : Present(credentials, f)}
        markers == {MarkerOf(f) : f \in SealedFields(service, credentials)}
    IN  [g \in DOMAIN credentials \cup markers |->
            IF g \in sealed THEN Base64Encode(encrypt(credentials[g], key))
            ELSE IF g \in markers THEN JSTrue
            ELSE credentials[g]]

encryptSensitiveFields(service, credentials, key) ==
    LET sealed == SealedFields(service, credentials)
        markers == {MarkerOf(f) : f \in sealed}
    IN  [g \in DOMAIN credentials \cup markers |->
            IF g \in sealed THEN Base64Encode(encrypt(credentials[g], key))
            ELSE IF g \in markers THEN JSTrue
            ELSE credentials[g]]

\* decryptSensitiveFields without the delete of the marker
decryptSensitiveFields_KeepMarker(service, credentials, key) ==
    IF credentials = Undefined THEN <<>>
    ELSE LET markers == {g \in DOMAIN credentials :
                            endsWithEncrypted(g) /\ credentials[g] = JSTrue}
             opened == {actualFieldOf(g) : g \in markers}
         IN  [f \in DOMAIN credentials |->
                 IF /\ f \in opened
                    /\ Truthy(credentials[f])
                    /\ IsString(credentials[f])
                    /\ key # NullKey
                 THEN decrypt(Base64Decode(credentials[f]), key)
                 ELSE credentials[f]]

\* decryptSensitiveFields that drops the markers and decrypts nothing
decryptSensitiveFields_DropMarkerOnly(service, credentials, key) ==
    IF credentials = Undefined THEN <<>>
    ELSE LET markers == {g \in DOMAIN credentials :
                            endsWithEncrypted(g) /\ credentials[g] = JSTrue}
         IN  [f \in DOMAIN credentials \ markers |-> credentials[f]]

\* decryptSensitiveFields; { ...undefined } is the empty object, and a decrypt
\* that throws (no master key, a value that is no string) leaves the field as
\* it is
decryptSensitiveFields(service, credentials, key) ==
    IF credentials = Undefined THEN <<>>
    ELSE LET markers == {g \in DOMAIN credentials :
                            endsWithEncrypted(g) /\ credentials[g] = JSTrue}
             opened == {actualFieldOf(g) : g \in markers}
         IN  [f \in DOMAIN credentials \ markers |->
                 IF /\ f \in opened
                    /\ Truthy(credentials[f])
                    /\ IsString(credentials[f])
                    /\ key # NullKey
                 THEN decrypt(Base64Decode(credentials[f]), key)
                 ELSE credentials[f]]

-----------------------------------------------------------------------------
(* CredentialStore *)

EmptyCache == <<>>

\* cache.set(service, record)
CacheSet(c, service, record) ==
    [id \in DOMAIN c \cup {service} |-> IF id = service THEN record ELSE c[id]]

\* cache.get(service)
CacheGet(c, service) == IF service \in DOMAIN c THEN c[service] ELSE Undefined

\* cache.delete(service)
CacheDelete(c, service) == [id \in DOMAIN c \ {service} |-> c[id]]

\* what JSON.parse reads back from JSON.stringify of an object: a property
\* whose value is undefined is left out
JSONOf(obj) == [id \in {i \in DOMAIN obj : obj[i] # Undefined} |-> obj[id]]

\* the Buffer encrypt(text) of a JSON text, as the pair of the value the text
\* stands for and the key it was XORed with
EncryptedDocument(doc, key) ==
    [exists |-> TRUE, key |-> key, doc |-> doc, whole |-> TRUE]

\* a file that fs.writeFile truncated and did not finish: a proper prefix of
\* the data
Truncated(data) == [data EXCEPT !.whole = FALSE]

\* JSON.parse(decrypt(file)) returns: the two keystreams cancel, and the text
\* is there to its closing brace
ParsesUnder(file, key) == file.whole /\ file.key = key

\* the conditions of the file system
DiskConditions == {"ok", "EACCES", "ENOSPC"}

\* fs.writeFile(path, data)
writeFile(file, data) ==
    IF disk = "ok" THEN [ok |-> TRUE, err |-> NoError, file |-> data]
    ELSE IF disk = "EACCES"
    THEN [ok |-> FALSE, err |-> "EACCES: permission denied", file |-> file]
    ELSE [ok |-> FALSE, err |-> "ENOSPC: no space left on device",
          file |-> Truncated(data)]

\* saveCredentials that reads the document on disk and adds the cache to it
saveCredentials_MergeWithDisk(c, key, file) ==
    IF key = NullKey
    THEN [ok |-> FALSE,
          err |-> "Failed to save credentials: Master key not initialized",
          file |-> file]
    ELSE LET onDisk == IF file.exists /\ ParsesUnder(file, key)
                       THEN file.doc ELSE <<>>
             merged == [id \in DOMAIN onDisk \cup DOMAIN JSONOf(c) |->
                           IF id \in DOMAIN c THEN c[id] ELSE onDisk[id]]
             written == writeFile(file, EncryptedDocument(merged, key))
         IN  [ok |-> written.ok, file |-> written.file,
              err |-> IF written.ok THEN NoError
                      ELSE "Failed to save credentials: " \o written.err]

\* saveCredentials: encrypt throws without a master key, before anything is
\* written
saveCredentials(c, key, file) ==
    IF key = NullKey
    THEN [ok |-> FALSE,
          err |-> "Failed to save credentials: Master key not initialized",
          file |-> file]
    ELSE LET written == writeFile(file, EncryptedDocument(JSONOf(c), key))
         IN  [ok |-> written.ok, file |-> written.file,
              err |-> IF written.ok THEN NoError
                      ELSE "Failed to save credentials: " \o written.err]

\* loadCredentials that takes what it can read of a file that does not parse
loadCredentials_NoParseFailure(c, key, file) ==
    IF ~file.exists \/ key = NullKey THEN c
    ELSE [id \in DOMAIN c \cup DOMAIN file.doc |->
             IF id \in DOMAIN file.doc THEN file.doc[id] ELSE c[id]]

\* loadCredentials: the cache afterwards; every failure is caught and logged
loadCredentials(c, key, file) ==
    IF ~file.exists \/ key = NullKey \/ ~ParsesUnder(file, key) THEN c
    ELSE [id \in DOMAIN c \cup DOMAIN file.doc |->
             IF id \in DOMAIN file.doc THEN file.doc[id] ELSE c[id]]

-----------------------------------------------------------------------------
(* Inputs of the calls *)

InputServices == {"stripe", "custom"}

Str_sk == <<115, 107>>
Str_xyz == <<120, 121, 122>>
Str_t == <<116>>

InputRecords(service) ==
    IF service = "stripe"
    THEN {<<>>,
          [api_key |-> Str_sk],
          [api_key |-> Str_xyz, webhook_secret |-> <<>>, environment |-> Str_t]}
    ELSE {[api_key |-> Str_sk, setting |-> Str_t]}

\* the plaintexts handed to encrypt: the empty string, ASCII, and characters
\* of two, three and four UTF-8 bytes
Str_accents == <<233, 8364>>
Str_emoji == <<107, 128512>>
PlainStrings == {<<>>, Str_sk, Str_xyz, Str_accents, Str_emoji}

\* records that satisfy the schema of their service, handed to
\* encryptSensitiveFields
SchemaServices == {"stripe", "aws", "custom"}
SchemaRecords(service) ==
    IF service = "stripe"
    THEN {[api_key |-> Str_sk],
          [api_key |-> Str_accents, webhook_secret |-> <<>>, environment |-> Str_t],
          [api_key |-> Str_xyz, webhook_secret |-> Str_emoji]}
    ELSE IF service = "aws"
    THEN {[access_key_id |-> Str_t, secret_access_key |-> Str_xyz],
          [access_key_id |-> Str_sk, secret_access_key |-> Str_emoji,
           region |-> Str_t, session_token |-> Str_accents]}
    ELSE {[api_key |-> Str_sk, setting |-> Str_t]}

\* the services argument of exportCredentials; null selects every stored id
NullServices == {"<null>"}
ExportSelections == {NullServices, {"stripe"}}

-----------------------------------------------------------------------------
(* VaultFacade: what each call does to the state it is given *)

RetentionWindow == 30

backupKeyOf(service, t) == service \o "_backup_" \o ToString(t)

\* the backup keys the calls of a run can make
BackupKeys == {backupKeyOf(s, t) : s \in InputServices, t \in 0..MaxNow}

\* key.includes('_backup_')
includesBackup(key) == key \in BackupKeys

\* parseInt(key.split('_backup_')[1], 10)
backupTimestamp(key) ==
    CHOOSE t \in 0..MaxNow : key \in {backupKeyOf(s, t) : s \in InputServices}

\* setCredentials that stores the record before it validates it
setCredentials_StoreFirst(c, key, file, service, credentials) ==
    LET invalid == validateCredentials(service, credentials)
        prefix == "Failed to set credentials for " \o service \o ": "
        stored == CacheSet(c, service, credentials)
    IN  IF invalid # NoError
        THEN [ok |-> FALSE, cache |-> stored, file |-> file,
              err |-> prefix \o invalid]
        ELSE IF key = NullKey
        THEN [ok |-> FALSE, cache |-> stored, file |-> file,
              err |-> prefix \o "Master key not initialized"]
        ELSE LET sealed == CacheSet(c, service,
                               encryptSensitiveFields(service, credentials, key))
                 saved == saveCredentials(sealed, key, file)
             IN  [ok |-> saved.ok, cache |-> sealed, file |-> saved.file,
                  err |-> IF saved.ok THEN NoError ELSE prefix \o saved.err]

setCredentials(c, key, file, service, credentials) ==
    LET invalid == validateCredentials(service, credentials)
        prefix == "Failed to set credentials for " \o service \o ": "
    IN  IF service = ""
        THEN [ok |-> FALSE, cache |-> c, file |-> file,
              err |-> prefix \o "Service name must be a non-empty string"]
        ELSE IF invalid # NoError
        THEN [ok |-> FALSE, cache |-> c, file |-> file, err |-> prefix \o invalid]
        ELSE IF key = NullKey /\ SealedFields(service, credentials) # {}
        THEN [ok |-> FALSE, cache |-> c, file |-> file,
              err |-> prefix \o "Master key not initialized"]
        ELSE LET encryptedCredentials ==
                     encryptSensitiveFields(service, credentials, key)
                 stored == CacheSet(c, service, encryptedCredentials)
                 saved == saveCredentials(stored, key, file)
             IN  [ok |-> saved.ok, cache |-> stored, file |-> saved.file,
                  err |-> IF saved.ok THEN NoError ELSE prefix \o saved.err]

\* getCredentials that returns the empty record for an id that is not stored
getCredentials_EmptyWhenAbsent(c, key, service) ==
    [ok |-> TRUE, err |-> NoError,
     ret |-> decryptSensitiveFields(service, CacheGet(c, service), key)]

getCredentials(c, key, service) ==
    IF service \notin DOMAIN c
    THEN [ok |-> FALSE, ret |-> <<>>,
          err |-> "Failed to get credentials for " \o service
                     \o ": No credentials found for service: " \o service]
    ELSE [ok |-> TRUE, err |-> NoError,
          ret |-> decryptSensitiveFields(service, c[service], key)]

\* removeCredentials that deletes from the cache and does not save
removeCredentials_NoSave(c, key, file, service) ==
    [ok |-> TRUE, cache |-> CacheDelete(c, service), file |-> file,
     err |-> NoError]

removeCredentials(c, key, file, service) ==
    IF service \in DOMAIN c
    THEN LET deleted == CacheDelete(c, service)
             saved == saveCredentials(deleted, key, file)
         IN  [ok |-> saved.ok, cache |-> deleted, file |-> saved.file,
              err |-> IF saved.ok THEN NoError
                      ELSE "Failed to remove credentials for " \o service
                               \o ": " \o saved.err]
    ELSE [ok |-> TRUE, cache |-> c, file |-> file, err |-> NoError]

\* Array.from(this.cache.keys()).sort(), as the set of its elements
listServices(c) == DOMAIN c

\* rotateCredentials that reads the old record under the backup key
rotateCredentials_LostOld(c, key, file, service, newCredentials, t) ==
    LET backupKey == backupKeyOf(service, t)
        oldCredentials == CacheGet(c, backupKey)
        backedUp == CacheSet(c, backupKey, oldCredentials)
        set == setCredentials(backedUp, key, file, service, newCredentials)
    IN  [ok |-> set.ok, cache |-> set.cache, file |-> set.file,
         err |-> IF set.ok THEN NoError
                 ELSE "Failed to rotate credentials for " \o service
                          \o ": " \o set.err]

rotateCredentials(c, key, file, service, newCredentials, t) ==
    LET oldCredentials == CacheGet(c, service)
        backupKey == backupKeyOf(service, t)
        backedUp == CacheSet(c, backupKey, oldCredentials)
        set == setCredentials(backedUp, key, file, service, newCredentials)
    IN  [ok |-> set.ok, cache |-> set.cache, file |-> set.file,
         err |-> IF set.ok THEN NoError
                 ELSE "Failed to rotate credentials for " \o service
                          \o ": " \o set.err]

exportCredentials(c, key, outFile, services, t) ==
    LET servicesToExport == IF services = NullServices THEN DOMAIN c ELSE services
        exported == [id \in servicesToExport \cap DOMAIN c |-> c[id]]
        exportData == [exported_at |-> t, services |-> JSONOf(exported)]
    IN  IF key = NullKey
        THEN [ok |-> FALSE, file |-> outFile,
              err |-> "Failed to export credentials: Master key not initialized"]
        ELSE LET written == writeFile(outFile, EncryptedDocument(exportData, key))
             IN  [ok |-> written.ok, file |-> written.file,
                  err |-> IF written.ok THEN NoError
                          ELSE "Failed to export credentials: " \o written.err]

\* importCredentials that never skips a service that is already stored
importCredentials_AlwaysOverwrite(c, key, file, inFile, overwrite) ==
    LET prefix == "Failed to import credentials: "
        unchanged(msg) == [ok |-> FALSE, cache |-> c, file |-> file,
                           err |-> prefix \o msg]
    IN  IF ~inFile.exists THEN unchanged("ENOENT: no such file or directory")
        ELSE IF key = NullKey THEN unchanged("Master key not initialized")
        ELSE IF ~ParsesUnder(inFile, key) THEN unchanged("Unexpected token in JSON")
        ELSE LET entries == inFile.doc.services
                 imported == DOMAIN entries
                 merged == [id \in DOMAIN c \cup imported |->
                               IF id \in imported THEN entries[id] ELSE c[id]]
                 saved == IF imported # {} THEN saveCredentials(merged, key, file)
                          ELSE [ok |-> TRUE, err |-> NoError, file |-> file]
             IN  [ok |-> saved.ok, cache |-> merged, file |-> saved.file,
                  err |-> IF saved.ok THEN NoError ELSE prefix \o saved.err]

\* importCredentials that merges the services of a file that does not parse
importCredentials_NoParseFailure(c, key, file, inFile, overwrite) ==
    LET prefix == "Failed to import credentials: "
        unchanged(msg) == [ok |-> FALSE, cache |-> c, file |-> file,
                           err |-> prefix \o msg]
    IN  IF ~inFile.exists THEN unchanged("ENOENT: no such file or directory")
        ELSE IF key = NullKey THEN unchanged("Master key not initialized")
        ELSE LET entries == inFile.doc.services
                 imported == {id \in DOMAIN entries : overwrite \/ id \notin DOMAIN c}
                 merged == [id \in DOMAIN c \cup imported |->
                               IF id \in imported THEN entries[id] ELSE c[id]]
                 saved == IF imported # {} THEN saveCredentials(merged, key, file)
                          ELSE [ok |-> TRUE, err |-> NoError, file |-> file]
             IN  [ok |-> saved.ok, cache |-> merged, file |-> saved.file,
                  err |-> IF saved.ok THEN NoError ELSE prefix \o saved.err]

importCredentials(c, key, file, inFile, overwrite) ==
    LET prefix == "Failed to import credentials: "
        unchanged(msg) == [ok |-> FALSE, cache |-> c, file |-> file,
                           err |-> prefix \o msg]
    IN  IF ~inFile.exists THEN unchanged("ENOENT: no such file or directory")
        ELSE IF key = NullKey THEN unchanged("Master key not initialized")
        ELSE IF ~ParsesUnder(inFile, key) THEN unchanged("Unexpected token in JSON")
        ELSE LET entries == inFile.doc.services
                 imported == {id \in DOMAIN entries : overwrite \/ id \notin DOMAIN c}
                 merged == [id \in DOMAIN c \cup imported |->
                               IF id \in imported THEN entries[id] ELSE c[id]]
                 saved == IF imported # {} THEN saveCredentials(merged, key, file)
                          ELSE [ok |-> TRUE, err |-> NoError, file |-> file]
             IN  [ok |-> saved.ok, cache |-> merged, file |-> saved.file,
                  err |-> IF saved.ok THEN NoError ELSE prefix \o saved.err]

\* cleanup that prunes and saves first and clears the memory last
cleanup_ClearLast(c, key, file, t) ==
    LET cutoffTime == t - RetentionWindow
        kept == {id \in DOMAIN c :
                    ~(includesBackup(id) /\ backupTimestamp(id) < cutoffTime)}
        pruned == [id \in kept |-> c[id]]
        saved == saveCredentials(pruned, key, file)
    IN  [ok |-> TRUE, err |-> NoError, cache |-> EmptyCache, key |-> NullKey,
         file |-> saved.file]

\* cleanup: the cache and the key are cleared first, the loop over the cache
\* and the save come after; a failing save is logged, never thrown
cleanup(c, key, file, t) ==
    LET cleared == EmptyCache
        clearedKey == NullKey
        cutoffTime == t - RetentionWindow
        kept == {id \in DOMAIN cleared :
                    ~(includesBackup(id) /\ backupTimestamp(id) < cutoffTime)}
        pruned == [id \in kept |-> cleared[id]]
        saved == saveCredentials(pruned, clearedKey, file)
    IN  [ok |-> TRUE, err |-> NoError, cache |-> pruned, key |-> clearedKey,
         file |-> saved.file]

-----------------------------------------------------------------------------
(* The state machine *)

\* a call is made, or the file system changes, while the run has steps left;
\* the process is between two calls before it and after it
Called ==
    /\ pc = "idle"
    /\ calls < MaxCalls
    /\ calls' = calls + 1
    /\ pc' = pc

Outcome(op, service, arg, ok, err, ret) ==
    [op |-> op, service |-> service, arg |-> arg, ok |-> ok, err |-> err,
     ret |-> ret]

NoArg == <<>>
NotGenerated == [key |-> NullKey, host |-> ""]

\* the memory of a vault instance constructed in "home" on hostA
NotInitialized ==
    [credentialsDir |-> "home", host |-> "hostA", masterKey |-> NullKey,
     cache |-> EmptyCache, pc |-> "idle"]

\* the state after construction of the first vault instance, in directory
\* "home" on hostA, with the given key file in "home" and the given places
\* where later processes can be started
InitWith(homeKeyFile, places) ==
    /\ credentialsDir = "home"
    /\ host = "hostA"
    /\ masterKey = NullKey
    /\ cache = EmptyCache
    /\ keyFile = [d \in Dirs |-> IF d = "home" THEN homeKeyFile ELSE NoFile]
    /\ credentialsFile = [d \in Dirs |-> NoFile]
    /\ exportFile = NoFile
    /\ now = 0
    /\ generated = [d \in Dirs |-> NotGenerated]
    /\ deployment = places
    /\ calls = 0
    /\ last = Outcome("new", "", NoArg, TRUE, NoError, NoArg)
    /\ disk = "ok"
    /\ suspended = NotInitialized
    /\ pc = "idle"

\* one vault directory on one machine, no files yet
Init == InitWith(NoFile, {<<"home", "hostA">>})

\* two vault directories on one machine
InitTwoDirs == InitWith(NoFile, {<<"home", "hostA">>, <<"tmp", "hostA">>})

\* key files that are on disk before the first run: empty, cut short, of the
\* right length but written by something else, too long
KeyFileLengths == {0, 40, 64, 70}
PreexistingKeyFiles ==
    {BytesFile([i \in 1..n |-> ((9 * i) + 4) % 256]) : n \in KeyFileLengths}

\* the directories are reachable from both machines, and "home" may hold a
\* key file already
InitKeyStore ==
    \E f \in {NoFile} \cup PreexistingKeyFiles :
        InitWith(f, Dirs \X Machines)

\* new CredentialManager({ credentialsDir }) in a process on machine m
New(dir, m) ==
    /\ <<dir, m>> \in deployment
    /\ credentialsDir' = dir
    /\ host' = m
    /\ masterKey' = NullKey
    /\ cache' = EmptyCache
    /\ last' = Outcome("new", "", NoArg, TRUE, NoError, NoArg)
    /\ pc' = "idle"
    /\ UNCHANGED <<keyFile, credentialsFile, exportFile, now, generated,
                   deployment, calls, disk, suspended>>

\* loadOrCreateMasterKey when the key file exists
LoadMasterKey ==
    /\ keyFile[credentialsDir].exists
    /\ masterKey' = decryptMasterKey(keyFile[credentialsDir].bytes,
                                     getMachineId(host))
    /\ UNCHANGED <<keyFile, generated>>

\* the lengths a key file can be left with when its write is cut short
TruncatedKeyLengths == {0, 40}

\* the else branch of loadOrCreateMasterKey: a fresh key is put in memory
\* and then written, sealed, over whatever is at the key file's path
GenerateMasterKey ==
    /\ \E key \in randomBytes(keyLength, KeySeeds),
          salt \in randomBytes(saltLength, SaltSeeds) :
          LET encryptedKey == encryptMasterKey(key, getMachineId(host), salt)
          IN  /\ masterKey' = key
              /\ IF disk = "ok"
                 THEN /\ keyFile' = [keyFile EXCEPT ![credentialsDir] =
                                        BytesFile(encryptedKey)]
                      /\ generated' = [generated EXCEPT ![credentialsDir] =
                                          [key |-> key, host |-> host]]
                 ELSE IF disk = "EACCES"
                 THEN UNCHANGED <<keyFile, generated>>
                 ELSE /\ \E n \in TruncatedKeyLengths :
                            keyFile' = [keyFile EXCEPT ![credentialsDir] =
                                BytesFile(SubSeq(encryptedKey, 1, n))]
                      /\ UNCHANGED generated

\* loadOrCreateMasterKey when there is no key file: the key is in memory
\* before the file is written
CreateMasterKey ==
    /\ ~keyFile[credentialsDir].exists
    /\ GenerateMasterKey

\* initialize(): ensureDir, loadOrCreateMasterKey, loadCredentials; a key
\* file that cannot be written ends it with an error
Initialize ==
    /\ LoadMasterKey \/ CreateMasterKey
    /\ IF keyFile[credentialsDir].exists \/ disk = "ok"
       THEN /\ cache' = loadCredentials(cache, masterKey',
                                        credentialsFile[credentialsDir])
            /\ last' = Outcome("initialize", "", NoArg, TRUE, NoError, NoArg)
       ELSE /\ cache' = cache
            /\ last' = Outcome("initialize", "", NoArg, FALSE,
                   "Failed to initialize credential manager: "
                       \o "Failed to handle master key: " \o disk, NoArg)
    /\ Called
    /\ UNCHANGED <<credentialsDir, host, credentialsFile, exportFile, now, deployment, disk, suspended>>

\* initialize() up to the answer of fs.pathExists(keyFile) when the answer
\* is that there is no key file: the process yields at the await with the
\* else branch of loadOrCreateMasterKey still to run
BeginCreateMasterKey ==
    /\ pc = "idle"
    /\ calls < MaxCalls
    /\ calls' = calls + 1
    /\ ~keyFile[credentialsDir].exists
    /\ pc' = "createMasterKey"
    /\ last' = Outcome("pathExists", "", NoArg, TRUE, NoError, NoArg)
    /\ UNCHANGED <<credentialsDir, host, masterKey, cache, keyFile,
                   credentialsFile, exportFile, now, generated, deployment,
                   disk, suspended>>

\* the rest of initialize() after fs.pathExists answered false: the else
\* branch of loadOrCreateMasterKey, which does not look at the path again,
\* then loadCredentials
FinishCreateMasterKey ==
    /\ pc = "createMasterKey"
    /\ GenerateMasterKey
    /\ IF disk = "ok"
       THEN /\ cache' = loadCredentials(cache, masterKey',
                                        credentialsFile[credentialsDir])
            /\ last' = Outcome("initialize", "", NoArg, TRUE, NoError, NoArg)
       ELSE /\ cache' = cache
            /\ last' = Outcome("initialize", "", NoArg, FALSE,
                   "Failed to initialize credential manager: "
                       \o "Failed to handle master key: " \o disk, NoArg)
    /\ pc' = "idle"
    /\ UNCHANGED <<credentialsDir, host, credentialsFile, exportFile, now,
                   deployment, calls, disk, suspended>>

SetCredentials(service, credentials) ==
    LET r == setCredentials(cache, masterKey, credentialsFile[credentialsDir],
                            service, credentials)
    IN  /\ cache' = r.cache
        /\ credentialsFile' = [credentialsFile EXCEPT ![credentialsDir] = r.file]
        /\ last' = Outcome("setCredentials", service, credentials,
                           r.ok, r.err, NoArg)
        /\ Called
        /\ UNCHANGED <<credentialsDir, host, masterKey, keyFile, exportFile,
                       now, generated,
                       deployment, disk, suspended>>

\* getCredentials that opens the stored record in place, without the copy
GetCredentials_OpensInPlace(service) ==
    LET r == getCredentials(cache, masterKey, service)
    IN  /\ cache' = IF r.ok THEN CacheSet(cache, service, r.ret) ELSE cache
        /\ last' = Outcome("getCredentials", service, NoArg, r.ok, r.err, r.ret)
        /\ Called
        /\ UNCHANGED <<credentialsDir, host, masterKey, keyFile,
                       credentialsFile, exportFile, now, generated,
                       deployment, disk, suspended>>

GetCredentials(service) ==
    LET r == getCredentials(cache, masterKey, service)
    IN  /\ last' = Outcome("getCredentials", service, NoArg, r.ok, r.err, r.ret)
        /\ Called
    /\ UNCHANGED <<credentialsDir, host, masterKey, cache, keyFile,
                       credentialsFile, exportFile, now, generated,
                       deployment, disk, suspended>>

RemoveCredentials(service) ==
    LET r == removeCredentials(cache, masterKey,
                               credentialsFile[credentialsDir], service)
    IN  /\ cache' = r.cache
        /\ credentialsFile' = [credentialsFile EXCEPT ![credentialsDir] = r.file]
        /\ last' = Outcome("removeCredentials", service, NoArg, r.ok, r.err, NoArg)
        /\ Called
        /\ UNCHANGED <<credentialsDir, host, masterKey, keyFile, exportFile,
                       now, generated,
                       deployment, disk, suspended>>

ListServices ==
    /\ last' = Outcome("listServices", "", NoArg, TRUE, NoError,
                       listServices(cache))
    /\ Called
    /\ UNCHANGED <<credentialsDir, host, masterKey, cache, keyFile,
                   credentialsFile, exportFile, now, generated,
                       deployment, disk, suspended>>

BackupCount(c) == Cardinality({id \in DOMAIN c : includesBackup(id)})

RotateCredentials(service, newCredentials) ==
    LET r == rotateCredentials(cache, masterKey,
                               credentialsFile[credentialsDir],
                               service, newCredentials, now)
    IN  /\ BackupCount(CacheSet(cache, backupKeyOf(service, now), Undefined))
               <= MaxBackups
        /\ cache' = r.cache
        /\ credentialsFile' = [credentialsFile EXCEPT ![credentialsDir] = r.file]
        /\ last' = Outcome("rotateCredentials", service, newCredentials,
                           r.ok, r.err, backupKeyOf(service, now))
        /\ Called
        /\ UNCHANGED <<credentialsDir, host, masterKey, keyFile, exportFile,
                       now, generated,
                       deployment, disk, suspended>>

ExportCredentials(services) ==
    LET r == exportCredentials(cache, masterKey, exportFile, services, now)
    IN  /\ exportFile' = r.file
        /\ last' = Outcome("exportCredentials", "", services, r.ok, r.err, NoArg)
        /\ Called
        /\ UNCHANGED <<credentialsDir, host, masterKey, cache, keyFile,
                       credentialsFile, now, generated,
                       deployment, disk, suspended>>

ImportCredentials(overwrite) ==
    LET r == importCredentials(cache, masterKey,
                               credentialsFile[credentialsDir],
                               exportFile, overwrite)
    IN  /\ cache' = r.cache
        /\ credentialsFile' = [credentialsFile EXCEPT ![credentialsDir] = r.file]
        /\ last' = Outcome("importCredentials", "", overwrite, r.ok, r.err, NoArg)
        /\ Called
        /\ UNCHANGED <<credentialsDir, host, masterKey, keyFile, exportFile,
                       now, generated,
                       deployment, disk, suspended>>

Cleanup ==
    LET r == cleanup(cache, masterKey, credentialsFile[credentialsDir], now)
    IN  /\ cache' = r.cache
        /\ masterKey' = r.key
        /\ credentialsFile' = [credentialsFile EXCEPT ![credentialsDir] = r.file]
        /\ last' = Outcome("cleanup", "", NoArg, r.ok, r.err, NoArg)
        /\ Called
        /\ UNCHANGED <<credentialsDir, host, keyFile, exportFile, now, generated,
                       deployment, disk, suspended>>

\* encrypt(data) called on the vault
Encrypt(data) ==
    /\ last' = IF masterKey = NullKey
               THEN Outcome("encrypt", "", data, FALSE,
                            "Master key not initialized", NoArg)
               ELSE Outcome("encrypt", "", data, TRUE, NoError,
                            encrypt(data, masterKey))
    /\ UNCHANGED <<credentialsDir, host, masterKey, cache, keyFile,
                   credentialsFile, exportFile, now, generated, deployment,
                   calls, disk, suspended, pc>>

\* decrypt(encryptedData) called with the Buffer the last encrypt returned
Decrypt ==
    /\ last.op = "encrypt"
    /\ last.ok
    /\ last' = IF masterKey = NullKey
               THEN Outcome("decrypt", "", last.arg, FALSE,
                            "Master key not initialized", NoArg)
               ELSE Outcome("decrypt", "", last.arg, TRUE, NoError,
                            decrypt(last.ret, masterKey))
    /\ UNCHANGED <<credentialsDir, host, masterKey, cache, keyFile,
                   credentialsFile, exportFile, now, generated, deployment,
                   calls, disk, suspended, pc>>

\* encryptSensitiveFields(service, credentials) called on the vault
EncryptSensitiveFields(service, credentials) ==
    /\ last' = IF masterKey = NullKey /\ SealedFields(service, credentials) # {}
               THEN Outcome("encryptSensitiveFields", service, credentials,
                            FALSE, "Master key not initialized", NoArg)
               ELSE Outcome("encryptSensitiveFields", service, credentials,
                            TRUE, NoError,
                            encryptSensitiveFields(service, credentials, masterKey))
    /\ UNCHANGED <<credentialsDir, host, masterKey, cache, keyFile,
                   credentialsFile, exportFile, now, generated, deployment,
                   calls, disk, suspended, pc>>

\* decryptSensitiveFields(service, credentials) called with the record the
\* last encryptSensitiveFields returned
DecryptSensitiveFields ==
    /\ last.op = "encryptSensitiveFields"
    /\ last.ok
    /\ last' = Outcome("decryptSensitiveFields", last.service, last.arg, TRUE,
                       NoError,
                       decryptSensitiveFields(last.service, last.ret, masterKey))
    /\ UNCHANGED <<credentialsDir, host, masterKey, cache, keyFile,
                   credentialsFile, exportFile, now, generated, deployment,
                   calls, disk, suspended, pc>>

\* the file system changes its condition between two calls
DiskFault(condition) ==
    /\ condition # disk
    /\ disk' = condition
    /\ last' = Outcome("diskFault", "", NoArg, TRUE, NoError, NoArg)
    /\ Called
    /\ UNCHANGED <<credentialsDir, host, masterKey, cache, keyFile,
                   credentialsFile, exportFile, now, generated, deployment,
                   suspended>>

\* the process is killed inside the fs.writeFile of the save of a
\* setCredentials: the file is truncated and not finished, the memory is
\* gone, and a new instance is constructed in the same place
CrashInSave(service, credentials) ==
    LET stored == CacheSet(cache, service,
                      encryptSensitiveFields(service, credentials, masterKey))
    IN  /\ service # ""
        /\ validateCredentials(service, credentials) = NoError
        /\ masterKey # NullKey
        /\ disk = "ok"
        /\ credentialsFile' = [credentialsFile EXCEPT ![credentialsDir] =
               Truncated(EncryptedDocument(JSONOf(stored), masterKey))]
        /\ masterKey' = NullKey
        /\ cache' = EmptyCache
        /\ last' = Outcome("crash", service, credentials, FALSE, "SIGKILL", NoArg)
        /\ Called
        /\ UNCHANGED <<credentialsDir, host, keyFile, exportFile, now,
                       generated, deployment, disk, suspended>>

\* the running process pauses and the other process runs
Switch ==
    /\ suspended' = [credentialsDir |-> credentialsDir, host |-> host,
                     masterKey |-> masterKey, cache |-> cache, pc |-> pc]
    /\ credentialsDir' = suspended.credentialsDir
    /\ host' = suspended.host
    /\ masterKey' = suspended.masterKey
    /\ cache' = suspended.cache
    /\ pc' = suspended.pc
    /\ last' = Outcome("switch", "", NoArg, TRUE, NoError, NoArg)
    /\ UNCHANGED <<keyFile, credentialsFile, exportFile, now, generated,
                   deployment, calls, disk>>

\* time passes between two calls
Tick ==
    /\ now + RetentionWindow + 1 <= MaxNow
    /\ now' = now + RetentionWindow + 1
    /\ last' = Outcome("tick", "", NoArg, TRUE, NoError, NoArg)
    /\ UNCHANGED <<credentialsDir, host, masterKey, cache, keyFile,
                   credentialsFile, exportFile, generated, deployment, calls, disk, suspended, pc>>

Next ==
    \/ \E d \in Dirs, m \in Machines : New(d, m)
    \/ Initialize
    \/ \E s \in InputServices : \E r \in InputRecords(s) : SetCredentials(s, r)
    \/ \E s \in InputServices : GetCredentials(s)
    \/ \E s \in InputServices : RemoveCredentials(s)
    \/ ListServices
    \/ \E s \in InputServices : \E r \in InputRecords(s) : RotateCredentials(s, r)
    \/ \E sel \in ExportSelections : ExportCredentials(sel)
    \/ \E o \in BOOLEAN : ImportCredentials(o)
    \/ Cleanup
    \/ Tick

Spec == Init /\ [][Next]_vars

\* the calls of the export/import workflow, made by vaults in either directory
TwoDirsNext ==
    \/ \E d \in Dirs, m \in Machines : New(d, m)
    \/ Initialize
    \/ \E s \in InputServices : \E r \in InputRecords(s) : SetCredentials(s, r)
    \/ \E s \in InputServices : GetCredentials(s)
    \/ \E sel \in ExportSelections : ExportCredentials(sel)
    \/ \E o \in BOOLEAN : ImportCredentials(o)

SpecTwoDirs == InitTwoDirs /\ [][TwoDirsNext]_vars

\* the calls that read or write the master key and its file
KeyStoreNext ==
    \/ \E d \in Dirs, m \in Machines : New(d, m)
    \/ Initialize
    \/ Cleanup

SpecKeyStore == InitKeyStore /\ [][KeyStoreNext]_vars

\* the field cipher called directly, as the documented tests do, under the
\* keys initialize() can load
CipherNext ==
    \/ Initialize
    \/ \E p \in PlainStrings : Encrypt(p)
    \/ Decrypt
    \/ \E s \in SchemaServices : \E r \in SchemaRecords(s) :
          EncryptSensitiveFields(s, r)
    \/ DecryptSensitiveFields

SpecCipher == InitKeyStore /\ [][CipherNext]_vars

\* one vault directory that two machines mount, on a file system that can
\* fail, with a process that can be killed and restarted
InitFaults == InitWith(NoFile, {"home"} \X Machines)

FaultNext ==
    \/ \E d \in Dirs, m \in Machines : New(d, m)
    \/ Initialize
    \/ \E s \in InputServices : \E r \in InputRecords(s) : SetCredentials(s, r)
    \/ \E sel \in ExportSelections : ExportCredentials(sel)
    \/ \E o \in BOOLEAN : ImportCredentials(o)
    \/ \E condition \in DiskConditions : DiskFault(condition)
    \/ \E s \in InputServices : \E r \in InputRecords(s) : CrashInSave(s, r)

SpecFaults == InitFaults /\ [][FaultNext]_vars

\* two vault processes attached to the same directory on the same machine
ProcessesNext ==
    \/ Switch
    \/ Initialize
    \/ \E s \in InputServices : \E r \in InputRecords(s) : SetCredentials(s, r)
    \/ \E s \in InputServices : RemoveCredentials(s)

SpecTwoProcesses == Init /\ [][ProcessesNext]_vars

\* two vault processes attached to the same directory on the same machine,
\* whose initialize() calls can overlap at the await of fs.pathExists
ConcurrentInitializeNext ==
    \/ Switch
    \/ Initialize
    \/ BeginCreateMasterKey
    \/ FinishCreateMasterKey
    \/ \E s \in InputServices : \E r \in InputRecords(s) : SetCredentials(s, r)

SpecConcurrentInitialize == Init /\ [][ConcurrentInitializeNext]_vars

-----------------------------------------------------------------------------
(* Properties *)

\* the credentials file of the directory of the vault in use
File == credentialsFile[credentialsDir]

\* what getCredentials(service) returns in a state
Get(c, key, service) == getCredentials(c, key, service)

PlainValues == {Str_sk, Str_xyz, Str_t}

\* the service a stored id belongs to: the id itself, or the service a backup
\* key was made for
serviceOfId(id) ==
    IF id \in BackupKeys
    THEN CHOOSE s \in InputServices : \E t \in 0..MaxNow : id = backupKeyOf(s, t)
    ELSE id

Mutators == {"setCredentials", "removeCredentials", "rotateCredentials"}

\* C1: after setCredentials(s, r) succeeds, getCredentials(s) returns exactly
\* r; and a set, remove or rotate that targets another service id leaves
\* what getCredentials(s) returns as it was.
C1_SetThenGet ==
    [][/\ (last'.op = "setCredentials" /\ last'.ok)
            => Get(cache', masterKey', last'.service)
                   = [ok |-> TRUE, err |-> NoError, ret |-> last'.arg]
       /\ \A s \in InputServices \cap DOMAIN cache :
            (last'.op \in Mutators /\ last'.service # s)
                => Get(cache', masterKey', s) = Get(cache, masterKey, s)]_vars

\* a rotate of "custom" has run while "stripe" holds a sealed record that
\* getCredentials opens to the record that was set
C1_Witness ==
    /\ last.op = "rotateCredentials"
    /\ last.service = "custom"
    /\ "stripe" \in DOMAIN cache
    /\ "api_key_encrypted" \in DOMAIN cache["stripe"]
    /\ Get(cache, masterKey, "stripe").ret = [api_key |-> Str_sk]

\* C2: in every persisted credentials document, every non-empty sensitive
\* field of a record of a known service (or of a backup of one) carries its
\* marker and is the base64 ciphertext of a plaintext, never a plaintext.
C2_NoPlaintextPersisted ==
    \A d \in Dirs :
        credentialsFile[d].exists =>
            \A id \in DOMAIN credentialsFile[d].doc :
                LET rec == credentialsFile[d].doc[id]
                IN  \A f \in sensitiveOf(serviceOfId(id)) \cap DOMAIN rec :
                        Len(rec[f]) > 0 =>
                            /\ MarkerOf(f) \in DOMAIN rec
                            /\ rec[MarkerOf(f)] = JSTrue
                            /\ rec[f] \notin PlainValues
                            /\ \E plain \in PlainValues :
                                  rec[f] = Base64Encode(
                                      encrypt(plain, credentialsFile[d].key))

\* an import has written a document that holds a sealed record and a sealed
\* backup
C2_Witness ==
    /\ last.op = "importCredentials"
    /\ last.ok
    /\ File.exists
    /\ "stripe" \in DOMAIN File.doc
    /\ "api_key_encrypted" \in DOMAIN File.doc["stripe"]
    /\ \E id \in BackupKeys \cap DOMAIN File.doc :
          "api_key_encrypted" \in DOMAIN File.doc[id]

\* C3: an initialize() that finds the key file of its directory, run on the
\* machine that generated the key, loads the generated key; run on another
\* machine it loads a different key; and it raises no error either way.
C3_MachineBinding ==
    (last.op = "initialize" /\ generated[credentialsDir].key # NullKey) =>
        /\ last.ok
        /\ masterKey # NullKey
        /\ (host = generated[credentialsDir].host
                => masterKey = generated[credentialsDir].key)
        /\ (host # generated[credentialsDir].host
                => masterKey # generated[credentialsDir].key)

\* the key file written on one machine has been loaded on the other
C3_Witness ==
    /\ last.op = "initialize"
    /\ generated[credentialsDir].key # NullKey
    /\ host # generated[credentialsDir].host
    /\ Len(masterKey) = keyLength

\* C4: setCredentials for a known service with a required field missing or
\* empty fails with the error that names a missing field and leaves the cache
\* and the credentials files as they were; with every required field present
\* it succeeds on an initialized vault.
C4_Validation ==
    [][(last'.op = "setCredentials" /\ last'.service \in KnownServices) =>
         LET s == last'.service
             required == Range(validationRules[s].required)
             missing == {f \in required : ~Present(last'.arg, f)}
         IN  IF missing # {}
             THEN /\ ~last'.ok
                  /\ \E f \in missing :
                        last'.err = "Failed to set credentials for " \o s
                            \o ": Missing required field '" \o f
                            \o "' for " \o s
                  /\ cache' = cache
                  /\ credentialsFile' = credentialsFile
             ELSE masterKey # NullKey => last'.ok]_vars

\* a set of an invalid record has failed on a vault that holds a stored and
\* persisted stripe record
C4_Witness ==
    /\ last.op = "setCredentials"
    /\ last.service = "stripe"
    /\ ~last.ok
    /\ masterKey # NullKey
    /\ "stripe" \in DOMAIN cache
    /\ File.exists
    /\ "stripe" \in DOMAIN File.doc

\* C5: a rotateCredentials of a stored service on an initialized vault whose
\* new record fails validation mutates nothing: the cache, and so
\* listServices, and the credentials files stay the same.
C5_RotateFailureMutatesNothing ==
    [][(/\ last'.op = "rotateCredentials"
        /\ ~last'.ok
        /\ masterKey # NullKey
        /\ last'.service \in DOMAIN cache
        /\ validateCredentials(last'.service, last'.arg) # NoError)
         => /\ cache' = cache
            /\ listServices(cache') = listServices(cache)
            /\ credentialsFile' = credentialsFile]_vars

\* C6: after rotateCredentials(s, new) succeeds on a service with a stored
\* record, listServices holds s and s_backup_<now>, getCredentials(s) returns
\* new and getCredentials of the backup returns the old record.
C6_RotationBackup ==
    [][(/\ last'.op = "rotateCredentials"
        /\ last'.ok
        /\ last'.service \in DOMAIN cache)
         => LET s == last'.service
                backupKey == backupKeyOf(s, now)
            IN  /\ last'.ret = backupKey
                /\ {s, backupKey} \subseteq listServices(cache')
                /\ Get(cache', masterKey', s).ret = last'.arg
                /\ Get(cache', masterKey', backupKey).ok
                /\ Get(cache', masterKey', backupKey).ret
                       = Get(cache, masterKey, s).ret]_vars

\* a rotation of stripe has succeeded and its backup holds a sealed record
\* that differs from the live one
C6_Witness ==
    /\ last.op = "rotateCredentials"
    /\ last.ok
    /\ last.service = "stripe"
    /\ last.ret \in DOMAIN cache
    /\ cache[last.ret] # Undefined
    /\ "api_key_encrypted" \in DOMAIN cache[last.ret]
    /\ Get(cache, masterKey, last.ret).ret # Get(cache, masterKey, "stripe").ret

\* C7: after cleanup() the persisted store holds no backup older than the
\* retention window.
C7_CleanupPrunesOldBackups ==
    (last.op = "cleanup" /\ File.exists) =>
        \A id \in DOMAIN File.doc :
            includesBackup(id) => backupTimestamp(id) >= now - RetentionWindow

\* C8: an importCredentials that returns leaves every stored id of the file
\* untouched when overwrite is false, replaces it with the imported record
\* when overwrite is true, and adds every id of the file that was not stored.
C8_ImportOverwrite ==
    [][(last'.op = "importCredentials" /\ last'.ok) =>
         /\ exportFile.exists
         /\ \A id \in DOMAIN exportFile.doc.services :
              /\ id \in DOMAIN cache'
              /\ cache'[id] =
                    IF id \in DOMAIN cache /\ ~last'.arg
                    THEN cache[id]
                    ELSE exportFile.doc.services[id]
         /\ \A id \in DOMAIN cache \ DOMAIN exportFile.doc.services :
              id \in DOMAIN cache' /\ cache'[id] = cache[id]]_vars

\* an import without overwrite has skipped a stored id whose record differs
\* from the one in the file
C8_Witness ==
    /\ last.op = "importCredentials"
    /\ last.ok
    /\ last.arg = FALSE
    /\ \E id \in DOMAIN exportFile.doc.services :
          id \in DOMAIN cache /\ cache[id] # exportFile.doc.services[id]

\* C9: importCredentials(path, true) of a file that exportCredentials wrote
\* with at least one record succeeds on any initialized vault, the one of
\* another fresh directory included, and getCredentials then returns the
\* exported records' values.
C9_ImportAcrossVaults ==
    (/\ last.op = "importCredentials"
     /\ last.arg = TRUE
     /\ masterKey # NullKey
     /\ exportFile.exists
     /\ DOMAIN exportFile.doc.services # {})
      => /\ last.ok
         /\ \A id \in DOMAIN exportFile.doc.services :
               Get(cache, masterKey, id).ret
                   = decryptSensitiveFields(id, exportFile.doc.services[id],
                                            exportFile.key)

\* C10: after initialize() the master key is keyLength = 32 bytes long.
C10_KeyLength ==
    last.op = "initialize" => (last.ok /\ Len(masterKey) = keyLength)

\* C15: opening the sealed form of a record that satisfies its schema gives
\* the record back: the same fields with the same values, no marker field.
C15_SealOpenRoundTrip ==
    last.op = "decryptSensitiveFields" =>
        /\ last.ret = last.arg
        /\ DOMAIN last.ret \cap MarkerNames = {}

\* a record with two sealed fields, one of them of characters outside ASCII,
\* has been sealed and opened under a loaded key
C15_Witness ==
    /\ last.op = "decryptSensitiveFields"
    /\ last.service = "aws"
    /\ masterKey # NullKey
    /\ "session_token" \in DOMAIN last.arg
    /\ last.ret["session_token"] = Str_accents
    /\ last.ret["secret_access_key"] = Str_emoji

\* C16: decrypt of the Buffer that encrypt returned for a string, under the
\* same initialized master key, returns the string.
C16_EncryptDecryptRoundTrip ==
    (last.op = "decrypt" /\ masterKey # NullKey) =>
        (last.ok /\ last.ret = last.arg)

\* a string with a character of four UTF-8 bytes has gone through encrypt and
\* decrypt under a key that is shorter than keyLength
C16_Witness ==
    /\ last.op = "decrypt"
    /\ last.ok
    /\ last.arg = Str_emoji
    /\ Len(masterKey) > 0
    /\ Len(masterKey) < keyLength

\* the ids whose records an import writes into the cache
ImportedIds(c, inFile, overwrite) ==
    {id \in DOMAIN inFile.doc.services : overwrite \/ id \notin DOMAIN c}

\* C11: after a set, a remove of a stored id, a rotate or an import of at
\* least one record has succeeded, the credentials file decrypts under the
\* master key to exactly the in-memory map: the same ids, the same sealed
\* records.
C11_FlushedAfterMutation ==
    [][(/\ last'.ok
        /\ \/ last'.op \in {"setCredentials", "rotateCredentials"}
           \/ last'.op = "removeCredentials" /\ last'.service \in DOMAIN cache
           \/ /\ last'.op = "importCredentials"
              /\ ImportedIds(cache, exportFile, last'.arg) # {})
         => /\ credentialsFile'[credentialsDir'].exists
            /\ ParsesUnder(credentialsFile'[credentialsDir'], masterKey')
            /\ DOMAIN credentialsFile'[credentialsDir'].doc = DOMAIN cache'
            /\ \A id \in DOMAIN cache' :
                  id \in DOMAIN credentialsFile'[credentialsDir'].doc =>
                      credentialsFile'[credentialsDir'].doc[id] = cache'[id]]_vars

\* the plaintexts of the sensitive fields of the input records, and their
\* ciphertext forms under a key
CiphertextForms(key) == {Base64Encode(encrypt(p, key)) : p \in PlainValues}

\* C17: what getCredentials returns for any stored id has no marker field and
\* no ciphertext: every sealed field comes back under its own name as the
\* plaintext it was sealed from.
C17_NoMarkerNoCiphertext ==
    \A id \in DOMAIN cache :
        LET stored == cache[id]
            got == Get(cache, masterKey, id)
        IN  /\ got.ok
            /\ DOMAIN got.ret \cap MarkerNames = {}
            /\ stored # Undefined =>
                 \A f \in DOMAIN stored \ MarkerNames :
                    /\ f \in DOMAIN got.ret
                    /\ (MarkerOf(f) \in DOMAIN stored) =>
                         /\ stored[f] \in CiphertextForms(masterKey)
                         /\ got.ret[f] \in PlainValues
                         /\ got.ret[f] \notin CiphertextForms(masterKey)
                         /\ stored[f] = Base64Encode(encrypt(got.ret[f], masterKey))

\* the store holds a live record, a backup made by a rotation and both came in
\* by an import; each has a sealed field
C17_Witness ==
    /\ last.op = "importCredentials"
    /\ last.ok
    /\ "stripe" \in DOMAIN cache
    /\ "api_key_encrypted" \in DOMAIN cache["stripe"]
    /\ \E id \in BackupKeys \cap DOMAIN cache :
          /\ cache[id] # Undefined
          /\ "api_key_encrypted" \in DOMAIN cache[id]
          /\ Get(cache, masterKey, id).ret # Get(cache, masterKey, "stripe").ret

\* C20: exportCredentials on an initialized vault succeeds and writes a
\* document with the export time and exactly the stored ids among the
\* requested ones (every stored id when none is requested), each with its
\* sealed record.
C20_ExportContents ==
    [][(last'.op = "exportCredentials" /\ masterKey # NullKey) =>
         LET requested == IF last'.arg = NullServices THEN DOMAIN cache
                          ELSE last'.arg \cap DOMAIN cache
         IN  /\ last'.ok
             /\ exportFile'.exists
             /\ ParsesUnder(exportFile', masterKey)
             /\ exportFile'.doc.exported_at = now
             /\ DOMAIN exportFile'.doc.services = requested
             /\ \A id \in requested :
                   id \in DOMAIN exportFile'.doc.services =>
                       exportFile'.doc.services[id] = cache[id]]_vars

\* C12: a credentials file on disk is at every moment a complete document,
\* the one saved before or the new one, also after the process was killed in
\* the middle of a save.
C12_NeverPartialFile ==
    \A d \in Dirs : credentialsFile[d].exists => credentialsFile[d].whole

\* C13: a setCredentials whose file write fails ends with an error, leaves
\* the new record in the in-memory map and the previous document on disk; and
\* every save that succeeds persists the whole in-memory map.
C13_FailedSave ==
    [][/\ (/\ last'.op = "setCredentials"
           /\ disk # "ok"
           /\ masterKey # NullKey
           /\ validateCredentials(last'.service, last'.arg) = NoError)
            => /\ ~last'.ok
               /\ cache' = CacheSet(cache, last'.service,
                              encryptSensitiveFields(last'.service, last'.arg,
                                                     masterKey))
               /\ credentialsFile' = credentialsFile
       /\ (last'.op = "setCredentials" /\ last'.ok)
            => /\ ParsesUnder(credentialsFile'[credentialsDir'], masterKey')
               /\ credentialsFile'[credentialsDir'].doc = cache']_vars

\* C14: a process that saves rewrites the whole credentials file from its own
\* in-memory map: an id that is in the file and not in the map of the writer,
\* such as the record the other process wrote, is gone from the file.
C14_LastWriterWins ==
    [][(/\ last'.op \in {"setCredentials", "removeCredentials"}
        /\ last'.ok
        /\ credentialsFile' # credentialsFile
        /\ File.exists)
         => \A id \in DOMAIN File.doc :
               /\ id \notin DOMAIN cache'
                    => id \notin DOMAIN credentialsFile'[credentialsDir'].doc
               /\ id \in DOMAIN cache'
                    => credentialsFile'[credentialsDir'].doc[id] = cache'[id]]_vars

\* both processes have set a record with success, the running one last, and
\* the record of the other one is not in the file
C14_Witness ==
    /\ last.op = "setCredentials"
    /\ last.ok
    /\ last.service = "custom"
    /\ suspended.masterKey = masterKey
    /\ "stripe" \in DOMAIN suspended.cache
    /\ "api_key_encrypted" \in DOMAIN suspended.cache["stripe"]
    /\ File.exists
    /\ "custom" \in DOMAIN File.doc
    /\ "stripe" \notin DOMAIN File.doc

\* C18: an initialize() that gets its master key and finds a credentials file
\* that does not parse succeeds and loads nothing: the cache is as it was,
\* and empty when the instance is new.
C18_ParseFailureOnLoad ==
    [][(/\ last'.op = "initialize"
        /\ keyFile[credentialsDir].exists \/ disk = "ok"
        /\ File.exists
        /\ ~ParsesUnder(File, masterKey'))
         => /\ last'.ok
            /\ cache' = cache
            /\ (last.op = "new" => listServices(cache') = {})]_vars

\* a new instance on the other machine has initialized over a complete file
\* that holds a record and that its key does not open
C18_Witness ==
    /\ last.op = "initialize"
    /\ last.ok
    /\ File.exists
    /\ File.whole
    /\ "stripe" \in DOMAIN File.doc
    /\ masterKey # NullKey
    /\ ~ParsesUnder(File, masterKey)
    /\ listServices(cache) = {}

\* C19: importCredentials of a file that does not decrypt to a document fails
\* with the import error and leaves the cache and the credentials files as
\* they were.
C19_CorruptedImport ==
    [][(/\ last'.op = "importCredentials"
        /\ exportFile.exists
        /\ ~ParsesUnder(exportFile, masterKey))
         => /\ ~last'.ok
            /\ \E msg \in {"Unexpected token in JSON", "Master key not initialized"} :
                  last'.err = "Failed to import credentials: " \o msg
            /\ cache' = cache
            /\ credentialsFile' = credentialsFile]_vars

\* an import of a truncated export that holds a record has failed on an
\* initialized vault
C19_Witness ==
    /\ last.op = "importCredentials"
    /\ ~last.ok
    /\ masterKey # NullKey
    /\ exportFile.exists
    /\ ~exportFile.whole
    /\ exportFile.key = masterKey
    /\ DOMAIN exportFile.doc.services # {}

\* the error of a getCredentials that finds no entry for a service id
NotFound(service) ==
    "Failed to get credentials for " \o service
        \o ": No credentials found for service: " \o service

\* C21: removeCredentials of a stored id takes it out of the in-memory map
\* and, when it returns, has persisted the store without it, so that
\* getCredentials of the id fails with not-found; of an id that is not stored
\* it returns without error and changes neither the map nor any file.
C21_Remove ==
    [][last'.op = "removeCredentials" =>
         LET s == last'.service
         IN  IF s \in DOMAIN cache
             THEN /\ s \notin DOMAIN cache'
                  /\ \A id \in DOMAIN cache \ {s} :
                        id \in DOMAIN cache' /\ cache'[id] = cache[id]
                  /\ ~Get(cache', masterKey', s).ok
                  /\ Get(cache', masterKey', s).err = NotFound(s)
                  /\ last'.ok =>
                       /\ credentialsFile'[credentialsDir'].exists
                       /\ ParsesUnder(credentialsFile'[credentialsDir'], masterKey')
                       /\ credentialsFile'[credentialsDir'].doc = JSONOf(cache')
                       /\ s \notin DOMAIN credentialsFile'[credentialsDir'].doc
             ELSE /\ last'.ok
                  /\ cache' = cache
                  /\ credentialsFile' = credentialsFile]_vars

\* a stored and persisted stripe record has been removed while another
\* record stays in the map and in the file
C21_Witness ==
    /\ last.op = "removeCredentials"
    /\ last.ok
    /\ last.service = "stripe"
    /\ File.exists
    /\ "stripe" \notin DOMAIN File.doc
    /\ "custom" \in DOMAIN File.doc
    /\ "custom" \in DOMAIN cache

\* C22: getCredentials of a service id that is not stored fails with the
\* not-found error that names the id, and changes neither the in-memory map
\* nor the files.
C22_GetNotFound ==
    [][(last'.op = "getCredentials" /\ last'.service \notin DOMAIN cache) =>
         /\ ~last'.ok
         /\ last'.err = NotFound(last'.service)
         /\ cache' = cache
         /\ credentialsFile' = credentialsFile
         /\ keyFile' = keyFile]_vars

\* a getCredentials of an id that is not stored has failed on an initialized
\* vault that holds another record
C22_Witness ==
    /\ last.op = "getCredentials"
    /\ ~last.ok
    /\ last.service = "stripe"
    /\ masterKey # NullKey
    /\ "custom" \in DOMAIN cache
    /\ "stripe" \notin DOMAIN cache

\* C23: when cleanup() has returned the master key is absent and the
\* in-memory map is empty, and the call that follows it, unless it is
\* initialize(), leaves every getCredentials failing with not-found.
C23_DiscardedUntilInitialize ==
    [][/\ last'.op = "cleanup"
            => /\ last'.ok
               /\ masterKey' = NullKey
               /\ cache' = EmptyCache
       /\ (last.op = "cleanup" /\ last'.op # "initialize")
            => \A id \in InputServices \cup BackupKeys :
                  /\ ~Get(cache', masterKey', id).ok
                  /\ Get(cache', masterKey', id).err = NotFound(id)]_vars

C28_SetWithoutKey ==
    [][(last'.op = "setCredentials" /\ masterKey = NullKey) =>
         /\ ~last'.ok
         /\ cache' = cache
         /\ credentialsFile' = credentialsFile]_vars

\* the backup entries of a service in a cache
BackupsOf(c, service) ==
    {id \in DOMAIN c : \E t \in 0..MaxNow : id = backupKeyOf(service, t)}

\* C29: each successful rotateCredentials of a stored service adds one
\* backup entry to the ones the store holds for it, with the record that was
\* live before the rotation, and leaves the earlier backups as they were; n
\* rotations so make n backups.
C29_OneBackupPerRotation ==
    [][(/\ last'.op = "rotateCredentials"
        /\ last'.ok
        /\ last'.service \in DOMAIN cache)
         => LET s == last'.service
                before == BackupsOf(cache, s)
                after == BackupsOf(cache', s)
            IN  /\ before \subseteq after
                /\ Cardinality(after) = Cardinality(before) + 1
                /\ \A id \in before : cache'[id] = cache[id]
                /\ \A id \in after \ before : cache'[id] = cache[s]]_vars

\* C30: getCredentials, listServices and exportCredentials change neither
\* the in-memory map nor the master key nor the key file nor the credentials
\* file; the record getCredentials returns is a copy, and the stored record
\* keeps its ciphertext and its markers.
C30_ReadOnly ==
    [][last'.op \in {"getCredentials", "listServices", "exportCredentials"} =>
         /\ cache' = cache
         /\ masterKey' = masterKey
         /\ keyFile' = keyFile
         /\ credentialsFile' = credentialsFile]_vars

\* getCredentials has returned the plaintext of a sealed record, and the
\* stored record still holds the marker and the ciphertext
C30_Witness ==
    /\ last.op = "getCredentials"
    /\ last.ok
    /\ last.service = "stripe"
    /\ last.ret["api_key"] \in PlainValues
    /\ "api_key_encrypted" \in DOMAIN cache["stripe"]
    /\ cache["stripe"]["api_key"] \in CiphertextForms(masterKey)
    /\ "api_key_encrypted" \notin DOMAIN last.ret

\* C24: of the master key that initialize() unwraps from a key file, bytes
\* 16..31 are the wrapped bytes XOR the first 16 salt bytes of the file: the
\* unwraps of the file under any two machine fingerprints agree on them, and
\* the fingerprint decides bytes 0..15 only.
C24_KeyTailFromFileAlone ==
    (last.op = "initialize" /\ keyFile[credentialsDir].exists) =>
        LET bytes == keyFile[credentialsDir].bytes
            unwrapped(m) == decryptMasterKey(bytes, getMachineId(m))
            tail(key) == Slice(key, 16, 32)
        IN  /\ masterKey = unwrapped(host)
            /\ \A m1 \in Machines : \A m2 \in Machines :
                  tail(unwrapped(m1)) = tail(unwrapped(m2))
            /\ \A i \in 1..Len(tail(masterKey)) :
                  tail(masterKey)[i] = XOR(bytes[saltLength + 16 + i], bytes[i])

\* a key file written on one machine has been unwrapped on the other: the
\* key differs from the generated one, and its bytes 16..31 are the same
C24_Witness ==
    /\ last.op = "initialize"
    /\ generated[credentialsDir].key # NullKey
    /\ host # generated[credentialsDir].host
    /\ Len(masterKey) = keyLength
    /\ masterKey # generated[credentialsDir].key
    /\ Slice(masterKey, 0, 16) # Slice(generated[credentialsDir].key, 0, 16)
    /\ Slice(masterKey, 16, 32) = Slice(generated[credentialsDir].key, 16, 32)

\* C26: a successful setCredentials(s, r) keeps every other service id that
\* the complete credentials file held: an id that was in the file when the
\* session initialized, and that the session did not remove or overwrite, is
\* in the file after the set.
C26_SetKeepsOtherIds ==
    [][(/\ last'.op = "setCredentials"
        /\ last'.ok
        /\ File.exists
        /\ File.whole)
         => \A id \in DOMAIN File.doc \ {last'.service} :
               id \in DOMAIN credentialsFile'[credentialsDir'].doc]_vars


\* the memory of the running vault process
Running ==
    [credentialsDir |-> credentialsDir, host |-> host, masterKey |-> masterKey,
     cache |-> cache, pc |-> pc]

\* C25: every process that has completed initialize() in the directory and on
\* the machine of the running process holds the master key that the key file
\* of that directory unwraps to on that machine, also when the initialize()
\* calls of the two processes overlapped on a directory without a key file.
C25_OneMasterKey ==
    \A p \in {Running, suspended} :
        (/\ p.pc = "idle"
         /\ p.masterKey # NullKey
         /\ p.credentialsDir = credentialsDir
         /\ p.host = host)
            => /\ keyFile[credentialsDir].exists
               /\ p.masterKey = decryptMasterKey(keyFile[credentialsDir].bytes,
                                                 getMachineId(host))

====
